---- MODULE Spec2Model ----
(***************************************************************************)
(* Model of lumberjack.actions.ActionQueue: a pending queue of index       *)
(* actions filled by producer threads (queue_index) and emptied by one     *)
(* background thread (run / _flush), which bulk-writes each batch to       *)
(* Elasticsearch and falls back to a local file on a TransportError.       *)
(*                                                                         *)
(* map() is the Python 2 builtin (the module uses len(actions)): it        *)
(* returns a list, evaluated eagerly.                                      *)
(***************************************************************************)
EXTENDS Integers, Sequences, FiniteSets, TLC

\* ------------------------------------------------------------------ bounds
\* Total number of queue_index calls explored.
MaxRecords == 2
\* Number of unexpected exceptions of _flush explored.
MaxExceptions == 1

\* ------------------------------------------------------------------ inputs
Producers == {"p1", "p2"}
\* config['max_queue_length']: None (the empty tuple), or a threshold <<k>>.
NoLimit == <<>>
QueueLimits == {NoLimit, <<2>>}
\* config['index_prefix'], and the suffix / doc_type / body arguments.
index_prefix == "lj-"
Suffixes == {"s"}
DocTypes == {"t"}
Bodies == {1}
\* Postprocessors: "inc" and "dbl" return a new body; "bad" scribbles on the
\* body it is handed and then raises.  One producer passes none (the default),
\* the other a list with a failing one in the middle.
PPChoices(p) == IF p = "p1" THEN {<<>>} ELSE {<<"inc", "bad", "dbl">>}

Ids == 1..MaxRecords

VARIABLES
    queue,          \* self.queue: sequence of (action, postprocessors)
    queue_lock,     \* self.queue_lock: "free", "loop" or the producer holding it
    flush_event,    \* self._flush_event: the Event's flag
    exceptions,     \* self.exceptions
    running,        \* self.running
    max_queue_length, \* self.config['max_queue_length']
    pc,             \* position of the ActionQueue thread in run/_flush
    batch,          \* _flush's local `queue`
    actions,        \* _flush's local `actions`
    ppc,            \* position of each producer in queue_index
    item,           \* the (action, postprocessors) a producer is enqueueing
    fallback_file,  \* lines of config['fallback_log_file']
    log,            \* what the _flush call in progress gave to self.logger (info and above)
    bulk_arg,       \* the `actions` argument of the self._bulk call of this cycle
    raised,         \* what the last call made by this _flush raised ("none": it returned)
    \* history (not read by the program)
    appended,       \* ids in the order they were appended to self.queue
    batches,        \* ids of every non-empty batch taken by a swap in _flush
    appendedAt,     \* per id: how many non-empty batches had been taken when it was appended
    trigInFlush,    \* trigger_flush was called during the flush before this wait
    calls,          \* trigger_flush calls made during the wait in progress: "none", "one" or "many"
    hit,            \* per producer: its append brought the queue to the limit
                    \* ("reached"), and a swap has emptied the queue since ("taken")
    owed,           \* ids queued when running was set to False and not taken since
    drained,        \* a swap took the last of them
    exitBy          \* how run returned

vars == <<queue, queue_lock, flush_event, exceptions, running, max_queue_length,
          pc, batch, actions, ppc, item, fallback_file, log, bulk_arg, raised,
          appended, batches, appendedAt, trigInFlush, calls, hit, owed,
          drained, exitBy>>

\* ----------------------------------------------------------------- helpers
IdsOf(s) == [i \in 1..Len(s) |-> s[i].action.id]
ActionIds(s) == [i \in 1..Len(s) |-> s[i].id]

RECURSIVE Flatten(_)
Flatten(ss) == IF ss = <<>> THEN <<>> ELSE Head(ss) \o Flatten(Tail(ss))

Range(s) == {s[i] : i \in 1..Len(s)}

Init ==
    /\ queue = <<>>
    /\ queue_lock = "free"
    /\ flush_event = FALSE
    /\ exceptions = <<>>
    /\ running = TRUE
    /\ max_queue_length \in QueueLimits
    /\ pc = "cond"
    /\ batch = <<>>
    /\ actions = <<>>
    /\ ppc = [p \in Producers |-> "idle"]
    /\ item = [p \in Producers |-> <<>>]
    /\ fallback_file = <<>>
    /\ log = <<>>
    /\ bulk_arg = <<>>
    /\ raised = "none"
    /\ appended = <<>>
    /\ batches = <<>>
    /\ appendedAt = [i \in Ids |-> 0]
    /\ trigInFlush = FALSE
    /\ calls = "none"
    /\ hit = [p \in Producers |-> "no"]
    /\ owed = {}
    /\ drained = FALSE
    /\ exitBy = "none"

\* --------------------------------------------------------------- producers
\* Positions of the ActionQueue thread after the swap of _flush and before
\* the end of the _flush call.
PastSwap == {"post", "bulk", "fallback"}
\* ... and up to the clear() of run's finally clause.
InFlush == PastSwap \cup {"clear"}

\* One more trigger_flush call, counted if the thread is in its wait.
CountCall(n) ==
    IF pc # "wait" THEN n ELSE IF n = "none" THEN "one" ELSE "many"

InFlight == Cardinality({p \in Producers : ppc[p] \in {"acquire", "append"}})

\* queue_index, lines 195-202: default the postprocessors, build the action.
EnqBegin(p) ==
    /\ ppc[p] = "idle"
    /\ Len(appended) + InFlight < MaxRecords
    /\ \E suffix \in Suffixes, doc_type \in DocTypes, body \in Bodies,
          postprocessors \in PPChoices(p) :
          item' = [item EXCEPT ![p] =
                     [action |-> [id |-> 0,
                                  op_type |-> "index",
                                  index |-> <<index_prefix, suffix>>,
                                  type |-> doc_type,
                                  source |-> body],
                      postprocessors |-> postprocessors]]
    /\ ppc' = [ppc EXCEPT ![p] = "acquire"]
    /\ UNCHANGED <<queue, queue_lock, flush_event, exceptions, running,
                   max_queue_length, pc, batch, actions, fallback_file, log,
                   bulk_arg, raised, appended, batches, appendedAt, trigInFlush,
                   calls, hit, owed, drained, exitBy>>

\* `with self.queue_lock:` entered by a producer.
EnqAcquire(p) ==
    /\ ppc[p] = "acquire"
    /\ queue_lock = "free"
    /\ queue_lock' = p
    /\ ppc' = [ppc EXCEPT ![p] = "append"]
    /\ UNCHANGED <<queue, flush_event, exceptions, running, max_queue_length, pc,
                   batch, actions, item, fallback_file, log, bulk_arg, raised,
                   appended, batches, appendedAt, trigInFlush, calls, hit, owed,
                   drained, exitBy>>

\* self.queue.append((action, postprocessors)), then the lock is released on
\* leaving the with block.  The id is the record's position in append order.
EnqAppend(p) ==
    /\ ppc[p] = "append"
    /\ queue_lock = p
    /\ LET id == Len(appended) + 1
           new == [item[p] EXCEPT !.action.id = id]
       IN /\ queue' = Append(queue, new)
          /\ appended' = Append(appended, id)
          /\ appendedAt' = [appendedAt EXCEPT ![id] = Len(batches)]
          /\ hit' = [hit EXCEPT ![p] =
                       IF /\ max_queue_length # NoLimit
                          /\ Len(queue) + 1 >= max_queue_length[1]
                       THEN "reached" ELSE "no"]
    /\ queue_lock' = "free"
    /\ ppc' = [ppc EXCEPT ![p] = "check"]
    /\ UNCHANGED <<flush_event, exceptions, running, max_queue_length, pc, batch,
                   actions, item, fallback_file, log, bulk_arg, raised, batches,
                   trigInFlush, calls, owed, drained, exitBy>>

\* The test with > for >=.
AtLimitStrict(n) == max_queue_length # NoLimit /\ n > max_queue_length[1]

\* The test of lines 213-214 on a queue length n.
AtLimit(n) == max_queue_length # NoLimit /\ n >= max_queue_length[1]

\* Lines 207-215: len(self.queue) is read outside the lock; queue_index
\* returns unless the limit is reached.
EnqCheck(p) ==
    /\ ppc[p] = "check"
    /\ IF AtLimit(Len(queue))
       THEN /\ ppc' = [ppc EXCEPT ![p] = "trigger"]
            /\ UNCHANGED <<item, hit>>
       ELSE /\ ppc' = [ppc EXCEPT ![p] = "idle"]
            /\ item' = [item EXCEPT ![p] = <<>>]
            /\ hit' = [hit EXCEPT ![p] = "no"]
    /\ UNCHANGED <<queue, queue_lock, flush_event, exceptions, running,
                   max_queue_length, pc, batch, actions, fallback_file, log,
                   bulk_arg, raised, appended, batches, appendedAt, trigInFlush,
                   calls, owed, drained, exitBy>>

\* Line 216: self.trigger_flush() called by queue_index, which then returns.
EnqTrigger(p) ==
    /\ ppc[p] = "trigger"
    /\ flush_event' = TRUE
    /\ trigInFlush' = (trigInFlush \/ pc \in InFlush)
    /\ calls' = CountCall(calls)
    /\ ppc' = [ppc EXCEPT ![p] = "idle"]
    /\ item' = [item EXCEPT ![p] = <<>>]
    /\ hit' = [hit EXCEPT ![p] = "no"]
    /\ UNCHANGED <<queue, queue_lock, exceptions, running, max_queue_length, pc,
                   batch, actions, fallback_file, log, bulk_arg, raised,
                   appended, batches, appendedAt, owed, drained, exitBy>>

\* trigger_flush called directly from the main thread.
trigger_flush ==
    /\ flush_event' = TRUE
    /\ trigInFlush' = (trigInFlush \/ pc \in InFlush)
    /\ calls' = CountCall(calls)
    /\ UNCHANGED <<queue, queue_lock, exceptions, running, max_queue_length, pc,
                   batch, actions, ppc, item, fallback_file, log, bulk_arg,
                   raised, appended, batches, appendedAt, hit, owed, drained,
                   exitBy>>

\* The shutdown request: the owner sets self.running = False.
Shutdown ==
    /\ running = TRUE
    /\ running' = FALSE
    /\ owed' = Range(IdsOf(queue))
    /\ UNCHANGED <<queue, queue_lock, flush_event, exceptions, max_queue_length,
                   pc, batch, actions, ppc, item, fallback_file, log, bulk_arg,
                   raised, appended, batches, appendedAt, trigInFlush, calls,
                   hit, drained, exitBy>>

\* ----------------------------------------------------------- postprocessors
\* A call postprocessor(arg): whether it raised, what it returned, and the
\* state it left its argument object in.
Call(postprocessor, arg) ==
    CASE postprocessor = "inc" -> [raised |-> FALSE, value |-> arg + 1, arg |-> arg]
      [] postprocessor = "dbl" -> [raised |-> FALSE, value |-> 2 * arg, arg |-> arg]
      [] postprocessor = "bad" -> [raised |-> TRUE, value |-> arg, arg |-> arg + 100]

\* The same pass with the body itself handed to the postprocessor.
TryPostprocessorNoCopy(source, postprocessor) ==
    LET r == Call(postprocessor, source)
    IN IF r.raised THEN r.arg ELSE r.value

\* One pass of the for loop of _run_postprocessors: the postprocessor gets a
\* deep copy of action['_source']; its result replaces the body unless it
\* raised, in which case the error is logged and the body stays.
TryPostprocessor(source, postprocessor) ==
    LET copy == source
        r == Call(postprocessor, copy)
    IN IF r.raised THEN source ELSE r.value

RECURSIVE ForPostprocessors(_, _)
ForPostprocessors(source, postprocessors) ==
    IF postprocessors = <<>>
    THEN source
    ELSE ForPostprocessors(TryPostprocessor(source, Head(postprocessors)),
                           Tail(postprocessors))

\* _run_postprocessors(queue_item): returns the action.
run_postprocessors(queue_item) ==
    [queue_item.action EXCEPT
        !.source = ForPostprocessors(queue_item.action.source,
                                     queue_item.postprocessors)]

\* The same list built back to front.
MapPostprocessorsReversed(q) ==
    [i \in 1..Len(q) |-> run_postprocessors(q[Len(q) + 1 - i])]

\* map(self._run_postprocessors, queue)
MapPostprocessors(q) == [i \in 1..Len(q) |-> run_postprocessors(q[i])]

\* dumps(doc) + '\n' of the fallback write: the JSON text of the whole action
\* followed by a newline.
dumps(doc) == [json |-> doc]

\* The line without its newline.
JsonLineUnterminated(doc) == <<dumps(doc)>>

JsonLine(doc) == <<dumps(doc), "\n">>
JsonLines(acts) == [i \in 1..Len(acts) |-> JsonLine(acts[i])]

\* ------------------------------------------------------ the ActionQueue thread
\* The loop condition without its first operand.
WhileConditionQueueOnly == Len(queue) > 0

\* A loop condition that is always true.
WhileConditionAlways == TRUE

\* The loop condition without its second operand.
WhileConditionRunningOnly == running

\* self.running or len(self.queue) > 0
WhileCondition == running \/ Len(queue) > 0

\* while (self.running or len(self.queue) > 0): the queue length is read
\* without the lock; run returns when the condition is false.
LoopCond ==
    /\ pc = "cond"
    /\ IF WhileCondition
       THEN pc' = "acquire" /\ exitBy' = exitBy
       ELSE pc' = "done" /\ exitBy' = "condition"
    /\ UNCHANGED <<queue, queue_lock, flush_event, exceptions, running,
                   max_queue_length, batch, actions, ppc, item, fallback_file,
                   log, bulk_arg, raised, appended, batches, appendedAt,
                   trigInFlush, calls, hit, owed, drained>>

\* _flush going to its swap without taking the lock.
LoopAcquireNoLock ==
    /\ pc = "acquire"
    /\ pc' = "swap"
    /\ UNCHANGED <<queue, queue_lock, flush_event, exceptions, running,
                   max_queue_length, batch, actions, ppc, item, fallback_file,
                   log, bulk_arg, raised, appended, batches, appendedAt,
                   trigInFlush, calls, hit, owed, drained, exitBy>>

\* _flush: `with self.queue_lock:` entered.
LoopAcquire ==
    /\ pc = "acquire"
    /\ queue_lock = "free"
    /\ queue_lock' = "loop"
    /\ pc' = "swap"
    /\ UNCHANGED <<queue, flush_event, exceptions, running, max_queue_length,
                   batch, actions, ppc, item, fallback_file, log, bulk_arg,
                   raised, appended, batches, appendedAt, trigInFlush, calls,
                   hit, owed, drained, exitBy>>

\* queue = list(self.queue)
TakenBatch(q) == q

\* A swap that leaves the queue as it was.
QueueAfterSwapStale(q) == q

\* self.queue = []
QueueAfterSwap(q) == <<>>

\* The lock kept by the thread after the with block.
HeldLock == "loop"

\* The lock on leaving `with self.queue_lock:`.
ReleasedLock == "free"

\* queue = list(self.queue); self.queue = []; the lock is released on leaving
\* the with block.
LoopSwap ==
    /\ pc = "swap"
    /\ queue_lock = "loop"
    /\ batch' = TakenBatch(queue)
    /\ queue' = QueueAfterSwap(queue)
    /\ queue_lock' = ReleasedLock
    /\ pc' = "post"
    /\ batches' = IF batch' = <<>> THEN batches ELSE Append(batches, IdsOf(batch'))
    /\ owed' = owed \ Range(IdsOf(batch'))
    /\ drained' = (drained \/ (owed # {} /\ owed' = {}))
    /\ hit' = [p \in Producers |->
                 IF hit[p] = "reached" /\ Len(queue') < Len(queue)
                 THEN "taken" ELSE hit[p]]
    /\ UNCHANGED <<flush_event, exceptions, running, max_queue_length, actions,
                   ppc, item, fallback_file, log, bulk_arg, raised, appended,
                   appendedAt, trigInFlush, calls, exitBy>>

\* actions = map(self._run_postprocessors, queue)
LoopPostprocess ==
    /\ pc = "post"
    /\ actions' = MapPostprocessors(batch)
    /\ pc' = "bulk"
    /\ UNCHANGED <<queue, queue_lock, flush_event, exceptions, running,
                   max_queue_length, batch, ppc, item, fallback_file, log,
                   bulk_arg, raised, appended, batches, appendedAt, trigInFlush,
                   calls, hit, owed, drained, exitBy>>

\* self.exceptions with the exception left out.
RecordExceptionDropped(excs, exc) == excs

\* self.exceptions.append(exc)
RecordException(excs, exc) == Append(excs, exc)

\* What run does with an exception that escapes _flush: log it, append it.
Unexpected(exc) ==
    /\ Len(exceptions) < MaxExceptions
    /\ raised' = exc
    /\ log' = Append(log, <<"unexpected", exc>>)
    /\ exceptions' = RecordException(exceptions, exc)

\* A last_exception that reports nothing.
last_exceptionNone == "None"

\* The last_exception property.
last_exception ==
    IF Len(exceptions) = 0 THEN "None" ELSE exceptions[Len(exceptions)]

\* A handler that sends every outcome of the bulk write to the fallback.
AfterBulkAlwaysFallback(outcome) == "fallback"

\* Where _flush goes after self._bulk: into the except TransportError clause,
\* or (else clause, or an exception that leaves _flush) on to run's finally.
AfterBulk(outcome) == IF outcome = "TransportError" THEN "fallback" ELSE "clear"

\* self._bulk(self.elasticsearch, actions) and its three outcomes: success
\* (else branch), TransportError, or any other exception, which leaves _flush
\* and is caught by run.
LoopBulk ==
    /\ pc = "bulk"
    /\ bulk_arg' = actions
    /\ \E outcome \in {"none", "TransportError", "ElasticsearchException"} :
          /\ pc' = AfterBulk(outcome)
          /\ CASE outcome = "none" ->
                    /\ raised' = outcome
                    /\ log' = Append(log, <<"flushed", Len(actions)>>)
                    /\ UNCHANGED exceptions
               [] outcome = "TransportError" ->
                    /\ raised' = outcome
                    /\ log' = Append(log, <<"fallback", Len(actions)>>)
                    /\ UNCHANGED exceptions
               [] outcome = "ElasticsearchException" ->
                    Unexpected(outcome)
    /\ UNCHANGED <<queue, queue_lock, flush_event, running, max_queue_length,
                   batch, actions, ppc, item, fallback_file, appended, batches,
                   appendedAt, trigInFlush, calls, hit, owed, drained, exitBy>>

\* The count given to 'Lost %d logs', one short.
LostLogShort(acts) == <<"lost", Len(acts) - 1>>

\* 'Error in fallback log. Lost %d logs.' with len(actions)
LostLog(acts) == <<"lost", Len(acts)>>

\* The fallback write, lines 115-123.  The file is opened for append and the
\* lines written in order; an IOError (from open, from a write after n lines,
\* or from the close) is caught and the loss logged; any other exception
\* (a KeyError for a missing 'fallback_log_file') is raised before the file
\* is opened and leaves _flush.
LoopFallback ==
    /\ pc = "fallback"
    /\ \/ /\ raised' = "none"
          /\ fallback_file' = fallback_file \o JsonLines(actions)
          /\ UNCHANGED <<log, exceptions>>
       \/ /\ raised' = "IOError"
          /\ \E n \in 0..Len(actions) :
                fallback_file' = fallback_file \o SubSeq(JsonLines(actions), 1, n)
          /\ log' = Append(log, LostLog(actions))
          /\ UNCHANGED exceptions
       \/ /\ Unexpected("KeyError")
          /\ UNCHANGED fallback_file
    /\ pc' = "clear"
    /\ UNCHANGED <<queue, queue_lock, flush_event, running, max_queue_length,
                   batch, actions, ppc, item, bulk_arg, appended, batches,
                   appendedAt, trigInFlush, calls, hit, owed, drained, exitBy>>

\* A clear() that leaves the flag as it was.
ClearedNot(flag) == flag

\* self._flush_event.clear(): the Event's flag afterwards.
Cleared(flag) == FALSE

\* A finally clause that clears the flag and does not wait.
LoopClearNoWait ==
    /\ pc = "clear"
    /\ flush_event' = Cleared(flush_event)
    /\ batch' = <<>>
    /\ actions' = <<>>
    /\ bulk_arg' = <<>>
    /\ log' = <<>>
    /\ raised' = "none"
    /\ pc' = "cond"
    /\ UNCHANGED <<queue, queue_lock, exceptions, running, max_queue_length, ppc,
                   item, fallback_file, appended, batches, appendedAt,
                   trigInFlush, calls, hit, owed, drained, exitBy>>

\* A finally clause that tests the loop condition before it waits, and
\* returns when it is false.
LoopClearOrExit ==
    /\ pc = "clear"
    /\ flush_event' = Cleared(flush_event)
    /\ batch' = <<>>
    /\ actions' = <<>>
    /\ bulk_arg' = <<>>
    /\ log' = <<>>
    /\ raised' = "none"
    /\ IF WhileCondition
       THEN pc' = "wait" /\ exitBy' = exitBy
       ELSE pc' = "done" /\ exitBy' = "condition"
    /\ UNCHANGED <<queue, queue_lock, exceptions, running, max_queue_length, ppc,
                   item, fallback_file, appended, batches, appendedAt,
                   trigInFlush, calls, hit, owed, drained>>

\* _flush has returned or raised, its locals are gone;
\* finally: self._flush_event.clear()
LoopClear ==
    /\ pc = "clear"
    /\ flush_event' = Cleared(flush_event)
    /\ batch' = <<>>
    /\ actions' = <<>>
    /\ bulk_arg' = <<>>
    /\ log' = <<>>
    /\ raised' = "none"
    /\ pc' = "wait"
    /\ UNCHANGED <<queue, queue_lock, exceptions, running, max_queue_length, ppc,
                   item, fallback_file, appended, batches, appendedAt,
                   trigInFlush, calls, hit, owed, drained, exitBy>>

\* self._flush_event.wait(interval) returns True: the flag is set.
WaitTriggered ==
    /\ pc = "wait"
    /\ flush_event = TRUE
    /\ trigInFlush' = FALSE
    /\ calls' = "none"
    /\ pc' = "cond"
    /\ UNCHANGED <<queue, queue_lock, flush_event, exceptions, running,
                   max_queue_length, batch, actions, ppc, item, fallback_file,
                   log, bulk_arg, raised, appended, batches, appendedAt, hit,
                   owed, drained, exitBy>>

\* self._flush_event.wait(interval) returns False: the interval ran out with
\* the flag still clear.
WaitTimeout ==
    /\ pc = "wait"
    /\ flush_event = FALSE
    /\ trigInFlush' = FALSE
    /\ calls' = "none"
    /\ pc' = "cond"
    /\ UNCHANGED <<queue, queue_lock, flush_event, exceptions, running,
                   max_queue_length, batch, actions, ppc, item, fallback_file,
                   log, bulk_arg, raised, appended, batches, appendedAt, hit,
                   owed, drained, exitBy>>

\* Event.wait raises TypeError (the interpreter is shutting down under the
\* daemon thread): run returns.
WaitTypeError ==
    /\ pc = "wait"
    /\ pc' = "done"
    /\ exitBy' = "TypeError"
    /\ calls' = "none"
    /\ UNCHANGED <<queue, queue_lock, flush_event, exceptions, running,
                   max_queue_length, batch, actions, ppc, item, fallback_file,
                   log, bulk_arg, raised, appended, batches, appendedAt,
                   trigInFlush, hit, owed, drained>>

Next ==
    \/ \E p \in Producers : EnqBegin(p)
    \/ \E p \in Producers : EnqAcquire(p)
    \/ \E p \in Producers : EnqAppend(p)
    \/ \E p \in Producers : EnqCheck(p)
    \/ \E p \in Producers : EnqTrigger(p)
    \/ trigger_flush
    \/ Shutdown
    \/ LoopCond
    \/ LoopAcquire
    \/ LoopSwap
    \/ LoopPostprocess
    \/ LoopBulk
    \/ LoopFallback
    \/ LoopClear
    \/ WaitTriggered
    \/ WaitTimeout
    \/ WaitTypeError

Spec == Init /\ [][Next]_vars

\* A step of the ActionQueue thread other than the TypeError exit of wait:
\* the loop test, the statements of _flush, clear(), and the return of
\* wait(interval) by the flag or by the timer.
LoopStep ==
    \/ LoopCond
    \/ LoopAcquire
    \/ LoopSwap
    \/ LoopPostprocess
    \/ LoopBulk
    \/ LoopFallback
    \/ LoopClear
    \/ WaitTriggered
    \/ WaitTimeout

\* A producer inside `with self.queue_lock:` appends and leaves the block.
ProducerRelease == \E p \in Producers : EnqAppend(p)

\* The thread is started and scheduled, every call it makes returns or
\* raises, wait(interval) returns when the flag is set or the interval has run
\* out, and a producer holding the lock releases it.
FairSpec == Spec /\ WF_vars(LoopStep) /\ WF_vars(ProducerRelease)

\* ================================================================== claims
Count(s, x) == Cardinality({i \in 1..Len(s) : s[i] = x})

\* C1: every record appended by queue_index is, at every moment, in exactly
\* one place: either once in the pending queue or once in exactly one batch
\* taken by a swap.  So no record is in two batches, none is put back in the
\* queue after it was taken, and none leaves the queue except into a batch.
C1_ExactlyOneBatch ==
    \A id \in Range(appended) :
        Count(IdsOf(queue), id) + Count(Flatten(batches), id) = 1

\* Two records were enqueued and taken by two different flush cycles.
C1_Witness ==
    /\ Len(batches) >= 2
    /\ queue = <<>>
    /\ Len(appended) >= 2

C3_EnqueueDuringFlush ==
    /\ \A id \in Range(appended) :
          IF id \in Range(IdsOf(queue))
          THEN /\ id \notin Range(IdsOf(batch))
               /\ id \notin Range(Flatten(batches))
          ELSE /\ appendedAt[id] + 1 <= Len(batches)
               /\ id \in Range(batches[appendedAt[id] + 1])
    /\ pc \in PastSwap => queue_lock # "loop"

\* A flush is in progress on a non-empty batch; a queue_index call made after
\* its swap has appended its record and returned.
C3_Witness ==
    /\ pc \in PastSwap
    /\ batch # <<>>
    /\ \A p \in Producers : ppc[p] = "idle"
    /\ \E i \in 1..Len(queue) :
          /\ appendedAt[queue[i].action.id] = Len(batches)
          /\ queue[i].action.id \notin Range(IdsOf(batch))

\* C4 (as claimed): a trigger_flush call made while a flush is in progress
\* interrupts the wait that follows that flush: whenever the thread waits
\* after a flush during which trigger_flush was called, the event is set.
C4_TriggerInterruptsNextWait ==
    (pc = "wait" /\ trigInFlush) => flush_event

C6_DrainedAtTermination ==
    pc = "done" => owed = {}

\* C6 (amended): when run has returned through its loop condition, every
\* record that was queued at the shutdown request has been taken by a swap
\* made after the request (so at least one more flush cycle ran).
C6_DrainedAtLoopExit ==
    (pc = "done" /\ exitBy = "condition") => owed = {}

\* Shutdown was requested with records queued, a later swap took them, and
\* run then returned through its loop condition.
C6_Witness ==
    /\ pc = "done"
    /\ exitBy = "condition"
    /\ ~running
    /\ drained

\* What a record's body is to be after its postprocessors: the body after
\* all but the last of them, passed through the last unless that one fails.
RECURSIVE ExpectedBody(_, _)
ExpectedBody(body, pps) ==
    IF pps = <<>>
    THEN body
    ELSE LET before == ExpectedBody(body, SubSeq(pps, 1, Len(pps) - 1))
             r == Call(pps[Len(pps)], before)
         IN IF r.raised THEN before ELSE r.value

ExpectedAction(queue_item) ==
    [queue_item.action EXCEPT
        !.source = ExpectedBody(queue_item.action.source,
                                queue_item.postprocessors)]

\* C7: a fallback write that completes (no IOError, nothing else raised)
\* appends to the fallback file one line per record of the batch, in batch
\* order, each the JSON text of the record's action with its body as the
\* postprocessors left it, followed by a newline.
C7_FallbackLines ==
    [][(pc = "fallback" /\ pc' = "clear" /\ raised' = "none")
          => fallback_file' = fallback_file \o
                [i \in 1..Len(batch) |->
                    <<[json |-> ExpectedAction(batch[i])], "\n">>]]_vars

\* A batch of two records, one of them with postprocessors, went to the
\* fallback file after a TransportError.
C7_Witness ==
    /\ pc = "clear"
    /\ raised = "none"
    /\ log = << <<"fallback", 2>> >>
    /\ Len(batch) = 2
    /\ \E i \in 1..2 : batch[i].postprocessors # <<>>
    /\ Len(fallback_file) >= 2

\* C8: when the fallback write raises IOError, 'Lost %d logs' is logged with
\* the size of the batch, nothing reaches run's except clause (the exceptions
\* list is unchanged), the batch is not put back in the queue, and the thread
\* goes on to the clear() and wait of run's finally clause.
C8_FallbackFailure ==
    [][(pc = "fallback" /\ raised' = "IOError")
          => /\ log' = Append(log, <<"lost", Len(batch)>>)
             /\ exceptions' = exceptions
             /\ queue' = queue
             /\ running' = running
             /\ pc' = "clear"]_vars

\* A non-empty batch has just been logged as lost, no exception was recorded,
\* and the next record is waiting in the queue.
C8_Witness ==
    /\ pc = "clear"
    /\ raised = "IOError"
    /\ batch # <<>>
    /\ log[Len(log)] = <<"lost", Len(batch)>>
    /\ exceptions = <<>>
    /\ queue # <<>>

\* C9: the list handed to the bulk write has one action per record of the
\* batch, in order, and each body is what the record's postprocessors make of
\* it when every failing one is skipped with the body left as it was; the
\* bulk write then receives that whole list.
C9_FailedTransformSkipped ==
    /\ pc = "bulk" =>
          /\ Len(actions) = Len(batch)
          /\ \A i \in 1..Len(batch) : actions[i] = ExpectedAction(batch[i])
    /\ pc \in {"fallback", "clear"} => bulk_arg = actions

\* The bulk write received two records, one of them changed by the
\* postprocessors around a failing one.
C9_Witness ==
    /\ pc = "fallback"
    /\ Len(bulk_arg) = 2
    /\ \E i \in 1..2 :
          /\ "bad" \in Range(batch[i].postprocessors)
          /\ bulk_arg[i].source # batch[i].action.source

\* C10: an exception of the bulk write other than TransportError, or of the
\* fallback write other than IOError, is appended to the exceptions list by
\* run, last_exception then returns it, and the thread goes on to the clear()
\* and wait of run's finally clause.
C10_UnexpectedRecorded ==
    [][(pc \in {"bulk", "fallback"}
        /\ raised' \notin {"none", "TransportError", "IOError"})
          => /\ exceptions' = Append(exceptions, raised')
             /\ last_exception' = raised'
             /\ pc' = "clear"]_vars

\* After an unexpected exception of the fallback write was recorded, the
\* thread is in its next flush.
C10_Witness ==
    /\ last_exception = "KeyError"
    /\ pc = "swap"

\* C11: however many trigger_flush calls are made between two returns of the
\* thread's wait, they end at most one wait and so start one flush cycle: the
\* Event holds a flag, not a count.  clear() runs before every wait, so a
\* wait finds the flag set exactly when trigger_flush was called during that
\* wait, once or many times, and it returns once for all of those calls.
C11_CallsCollapse ==
    /\ flush_event \in BOOLEAN
    /\ pc = "wait" => (flush_event <=> calls # "none")

\* The thread waits with the flag set by several trigger_flush calls.
C11_Witness ==
    /\ pc = "wait"
    /\ flush_event
    /\ calls = "many"

\* C12: the ActionQueue thread holds queue_lock for the swap of _flush and for
\* nothing else: while it runs the postprocessors, the bulk write or the
\* fallback write the lock is free or held by a producer, and a producer that
\* waits for the lock then waits for another producer's append, never for the
\* flush.
C12_LockNotHeldAcrossFlush ==
    /\ pc \in PastSwap => queue_lock \in {"free"} \cup Producers
    /\ queue_lock = "loop" <=> pc = "swap"
    /\ \A p \in Producers :
          (pc \in PastSwap /\ ppc[p] = "acquire" /\ queue_lock # "free")
              => \E q \in Producers \ {p} : queue_lock = q /\ ppc[q] = "append"

\* The thread is in the bulk write of a non-empty batch while a producer
\* holds the lock for its append.
C12_Witness ==
    /\ pc = "bulk"
    /\ batch # <<>>
    /\ \E p \in Producers : queue_lock = p /\ ppc[p] = "append"

\* C13: once running is False with the queue empty and the flag clear, the
\* thread returns from run unless a further record is appended: scheduled
\* fairly, it goes through at most the flush in progress and one wait, which
\* ends by the timer or by the flag, and then finds its loop condition false.
C13_ShutdownTerminates ==
    (~running /\ queue = <<>> /\ ~flush_event)
        ~> (pc = "done" \/ queue # <<>>)

\* Shutdown was requested with nothing ever enqueued and the flag clear, and
\* run has returned through its loop condition.
C13_Witness ==
    /\ pc = "done"
    /\ exitBy = "condition"
    /\ ~running
    /\ ~flush_event
    /\ appended = <<>>
    /\ \A p \in Producers : ppc[p] = "idle"

\* Positions of the ActionQueue thread inside a flush cycle: the _flush call
\* and the clear() that follows it.
Flushing == {"acquire", "swap", "post", "bulk", "fallback", "clear"}

\* C14 (as claimed): a flush cycle that ends with running False and the queue
\* empty is followed by the return of run, and one that ends otherwise by the
\* wait.
C14_ExitAfterFlush ==
    [][(pc \in Flushing /\ pc' \notin Flushing)
          => IF ~running /\ queue = <<>> THEN pc' = "done" ELSE pc' = "wait"]_vars

\* C14 (amended): a flush cycle is always followed by the wait, whatever
\* running and the queue are; run returns only from the loop test made after
\* a wait has returned, or from the wait itself.
C14_WaitAfterFlush ==
    [][/\ (pc \in Flushing /\ pc' \notin Flushing) => pc' = "wait"
       /\ (pc # "cond" /\ pc' = "cond") => pc = "wait"
       /\ (pc # "done" /\ pc' = "done") => pc \in {"cond", "wait"}]_vars

\* The thread waits after a flush that took a record although running is
\* False, the queue is empty and no producer is at work.
C14_Witness ==
    /\ pc = "wait"
    /\ ~running
    /\ queue = <<>>
    /\ batches # <<>>
    /\ \A p \in Producers : ppc[p] = "idle"

\* C15 (as claimed): every return of run is made with running False and the
\* queue empty.
C15_ExitOnlyWhenStoppedAndEmpty ==
    [][(pc # "done" /\ pc' = "done") => (~running /\ queue = <<>>)]_vars

\* C15 (amended): run returns in two ways only: from its loop test, with
\* running False and the queue read as empty, or from a wait whose
\* Event.wait raised TypeError.  Whatever a postprocessor, the bulk write or
\* the fallback write raises, the thread goes on inside the flush cycle to
\* the clear() and the wait.
C15_ExitByTestOrWaitError ==
    [][/\ (pc # "done" /\ pc' = "done")
            => \/ pc = "cond" /\ ~running /\ queue = <<>> /\ exitBy' = "condition"
               \/ pc = "wait" /\ exitBy' = "TypeError"
       /\ (pc \in PastSwap /\ pc' # pc) => pc' \in {"bulk", "fallback", "clear"}
       /\ (pc = "clear" /\ pc' # pc) => pc' = "wait"]_vars

\* After an unexpected exception of a flush was recorded the thread went on,
\* took a record in a later flush, and returned through its loop test once
\* running was False and the queue empty.
C15_Witness ==
    /\ pc = "done"
    /\ exitBy = "condition"
    /\ exceptions # <<>>
    /\ batches # <<>>
    /\ ~running
    /\ queue = <<>>

\* C16 (as claimed): every step that reads or writes self.queue is made by a
\* thread that holds queue_lock: the append of queue_index, the copy and
\* reset of _flush, the len(self.queue) of queue_index's log line and limit
\* test, and the len(self.queue) of run's loop test (evaluated when running
\* is False).
C16_EveryAccessUnderLock ==
    [][/\ \A p \in Producers :
             (ppc[p] \in {"append", "check"} /\ ppc'[p] # ppc[p]) => queue_lock = p
       /\ (pc = "swap" /\ pc' # pc) => queue_lock = "loop"
       /\ (pc = "cond" /\ pc' # pc /\ ~running) => queue_lock = "loop"]_vars

\* C16 (amended): self.queue is written, and its contents copied, only by a
\* thread that holds queue_lock: the append of queue_index and the copy and
\* reset of _flush.  The lengths read by queue_index after its append and by
\* run's loop test are read without the lock.
C16_WritesUnderLock ==
    [][/\ queue' # queue
            => \/ pc = "swap" /\ queue_lock = "loop" /\ pc' = "post"
               \/ \E p \in Producers :
                     ppc[p] = "append" /\ queue_lock = p /\ ppc'[p] = "check"
       /\ pc' = "swap" => queue_lock' = "loop"
       /\ (pc = "swap" /\ pc' # pc) => (queue_lock = "loop" /\ batch' = queue)
       /\ \A p \in Producers :
             (ppc[p] = "check" /\ ppc'[p] # ppc[p]) => queue_lock # p
       /\ (pc = "cond" /\ pc' # pc) => queue_lock # "loop"]_vars

\* running is False and the thread is about to read the queue's length in
\* its loop test while a producer holds the lock for its append.
C16_Witness ==
    /\ pc = "cond"
    /\ ~running
    /\ \E p \in Producers : queue_lock = p /\ ppc[p] = "append"

\* C17: the fallback file changes only in the fallback write of a flush whose
\* self._bulk raised TransportError; a flush whose bulk write returns, or
\* raises anything else, goes on to run's finally clause with the file as it
\* was.
C17_FallbackOnlyOnTransportError ==
    [][/\ fallback_file' # fallback_file
            => (pc = "fallback" /\ raised = "TransportError")
       /\ (pc = "bulk" /\ pc' # pc /\ raised' # "TransportError")
            => (pc' = "clear" /\ fallback_file' = fallback_file)
       /\ (pc = "clear" /\ pc' # pc) => fallback_file' = fallback_file]_vars

\* A first batch went to the fallback file; the bulk write of a second,
\* non-empty batch raised something other than TransportError and the file
\* still holds the first batch's line only.
C17_Witness ==
    /\ pc = "clear"
    /\ raised = "ElasticsearchException"
    /\ batch # <<>>
    /\ Len(batches) = 2
    /\ Len(fallback_file) = 1

\* C18: run starts with a flush, and flush and wait then take turns.  The
\* thread enters its wait only from the clear() that ends a flush cycle, and
\* enters a flush cycle only from the loop test, which it reaches only from
\* the start of run or from a wait that has returned: so no wait comes before
\* the first flush, no two waits come without a flush between them, and no
\* two flushes without a wait between them.
C18_FlushWaitAlternate ==
    [][/\ (pc # "wait" /\ pc' = "wait") => pc = "clear"
       /\ (pc \notin Flushing /\ pc' \in Flushing) => (pc = "cond" /\ pc' = "acquire")
       /\ (pc # "cond" /\ pc' = "cond") => pc = "wait"
       /\ (pc \in Flushing /\ pc' \notin Flushing) => (pc = "clear" /\ pc' = "wait")
       /\ (pc = "wait" /\ pc' # pc) => pc' \in {"cond", "done"}
       /\ (pc \in Flushing /\ pc' \in Flushing /\ pc' # pc)
            => <<pc, pc'>> \in {<<"acquire", "swap">>, <<"swap", "post">>,
                                <<"post", "bulk">>, <<"bulk", "fallback">>,
                                <<"bulk", "clear">>, <<"fallback", "clear">>}]_vars

\* The thread is in its second wait, after two flushes that each took a
\* record.
C18_Witness ==
    /\ pc = "wait"
    /\ Len(batches) = 2
    /\ running

C20_NoRecordLeftBehind ==
    (pc = "done" /\ exitBy = "condition") => queue = <<>>

====
